---- MODULE Spec2Model ----
(***************************************************************************)
(* A model of the search engine's core: the AvlTree index (AvlTree.h), its *)
(* text persistence, and the QueryProcessor (QueryProcessor.h) that        *)
(* evaluates queries over three AvlTree indexes.                           *)
(*                                                                         *)
(* Strings are sequences of character codes (ASCII), nodes live in a heap  *)
(* of cells addressed by 1..MaxNodes and the null pointer is 0.            *)
(***************************************************************************)
EXTENDS Integers, Sequences, FiniteSets, TLC

(***************************************************************************)
(* Bounds of the model.                                                    *)
(***************************************************************************)
\* number of cells of the heap (nodes that can be live at the same time)
MaxNodes == 5
\* number of distinct single-letter keys the balance runs insert
NumKeys == 5
\* how often the balance runs may insert one key
MaxRepeat == 2
\* largest count a posting may reach in the posting runs
MaxCount == 3
\* largest count a posting may reach in the copy runs
MaxCopyCount == 2
\* number of insert calls that populate the tree that is saved
MaxFileInserts == 3
\* largest number of posting maps the exclusion vector may hold
MaxBadMaps == 1
\* number of documents the word of the paging runs is indexed in
MaxDocs == 21
\* number of documents the second word of the paging runs is indexed in
MaxLoanDocs == 2
\* the number of direct inserts before a file is loaded
MaxLoadInserts == 2

(***************************************************************************)
(* Characters the code names.                                              *)
(***************************************************************************)
Newline == 10
Space == 32
OpenParen == 40
CloseParen == 41
Comma == 44
Dash == 45
Colon == 58
Zero == 48
Plus == 43
Tab == 9
CarriageReturn == 13

\* std::string::npos, the "not found" position
npos == -1

\* the largest int
IntMax == 2147483647

\* the null pointer
Null == 0

\* an imbalance of two levels tolerated before a rotation
ALLOWED_IMBALANCE_Loose == 1 + 1

\* AvlTree::ALLOWED_IMBALANCE
ALLOWED_IMBALANCE == 1

VARIABLES
    heap,           \* the free store: cell address -> AvlNode (or a free cell)
    alive,          \* which AvlTree objects exist
    root,           \* AvlTree::root of each object
    uniqueTokens,   \* AvlTree::uniqueTokens of each object
    inserted,       \* history: per object, (key, document) -> sum of the counts
                    \* of the insert calls that built its present contents
    file,           \* the characters of the text file the trees are saved to
    terminated,     \* an exception has left the program (nothing catches it)
    saved,          \* history: the key -> postings mapping of the tree that
                    \* was last written to the file
    stopWords,      \* DocumentParser::stopWords, the static set
    vectorOfMaps,   \* QueryProcessor: posting maps of the positive terms
    vectorOfBadMaps,        \* posting maps of the excluded terms
    documentFrequencyPairs, \* the ranked (document, score) pairs
    searchIndex,    \* the pagination cursor
    search,         \* history: the string of the last query
    output,         \* what the last outputDocuments call printed
    emitted,        \* history: the pairs printed since the last query began
    docName,        \* performQuery: the name the last getDocumentName gave
    last            \* history: the last operation, [op, obj, from, arg]; arg of
                    \* an insert is 1 for a key already present, 2 when a
                    \* rotation moved a node to another depth, else 0; of the others the
                    \* number of nodes the operation found

fileVars == <<file, saved>>

queryVars == <<stopWords, vectorOfMaps, vectorOfBadMaps,
               documentFrequencyPairs, searchIndex, search, output, emitted,
               docName>>

vars == <<heap, alive, root, uniqueTokens, inserted, file, terminated, saved,
          stopWords, vectorOfMaps, vectorOfBadMaps, documentFrequencyPairs,
          searchIndex, search, output, emitted, docName, last>>

(***************************************************************************)
(* std::string and std::map helpers.                                       *)
(***************************************************************************)
Max(a, b) == IF a >= b THEN a ELSE b

Min(a, b) == IF a <= b THEN a ELSE b

\* std::string operator< : lexicographic comparison of the characters
RECURSIVE Less(_, _)
Less(a, b) ==
    IF b = <<>> THEN FALSE
    ELSE IF a = <<>> THEN TRUE
    ELSE IF Head(a) < Head(b) THEN TRUE
    ELSE IF Head(b) < Head(a) THEN FALSE
    ELSE Less(Tail(a), Tail(b))

\* an empty std::map<std::string, int>
EmptyMap == [d \in {} |-> 0]

\* m[documentID] += frequency on a std::map<std::string, int>: operator[]
\* default-constructs a missing entry to 0 before the addition
AddCount(m, documentID, frequency) ==
    [d \in DOMAIN m \cup {documentID} |->
        IF d = documentID
        THEN (IF d \in DOMAIN m THEN m[d] ELSE 0) + frequency
        ELSE m[d]]

\* the least element of a non-empty set of positions
Least(S) == CHOOSE i \in S : \A j \in S : i <= j

FirstOr(hits) == IF hits = {} THEN npos ELSE Least(hits)

\* s.find(ch, pos): the first position >= pos that holds ch (positions
\* count from 0), npos when there is none or pos is npos
Find(s, ch, pos) ==
    IF pos = npos THEN npos
    ELSE FirstOr({i \in pos..(Len(s) - 1) : s[i + 1] = ch})

\* s.substr(pos, n) for pos <= s.size(): at most n characters from pos
Substr(s, pos, n) == SubSeq(s, pos + 1, Min(pos + n, Len(s)))

\* s.substr(pos)
SubstrFrom(s, pos) == SubSeq(s, pos + 1, Len(s))

\* operator<< of a non-negative int: its decimal digits
RECURSIVE Digits(_)
Digits(n) ==
    IF n < 10 THEN <<Zero + n>>
    ELSE Digits(n \div 10) \o <<Zero + (n % 10)>>

\* operator<< of an int
ToChars(n) == IF n < 0 THEN <<Dash>> \o Digits(0 - n) ELSE Digits(n)

IsSpace(c) == c = Space \/ c \in Tab..CarriageReturn

IsDigit(c) == c \in Zero..(Zero + 9)

\* the characters of s after its leading white space
RECURSIVE SkipSpace(_)
SkipSpace(s) ==
    IF s # <<>> /\ IsSpace(Head(s)) THEN SkipSpace(Tail(s)) ELSE s

\* the value of the leading digits of s, given the value acc of the digits
\* before them; -1 when it leaves the range of int
RECURSIVE Accumulate(_, _)
Accumulate(s, acc) ==
    IF s = <<>> \/ ~IsDigit(Head(s)) THEN acc
    ELSE IF acc > (IntMax - (Head(s) - Zero)) \div 10 THEN -1
    ELSE Accumulate(Tail(s), 10 * acc + (Head(s) - Zero))

\* the result of a conversion: a value, or an exception thrown
Converted(v, sign) ==
    IF v < 0 THEN [ok |-> FALSE, value |-> 0]
    ELSE [ok |-> TRUE, value |-> sign * v]

\* the digits after the optional sign; without a digit the conversion throws
Unsigned(s, sign) ==
    IF s = <<>> \/ ~IsDigit(Head(s)) THEN [ok |-> FALSE, value |-> 0]
    ELSE Converted(Accumulate(s, 0), sign)

Signed(s) ==
    IF s # <<>> /\ Head(s) = Dash THEN Unsigned(Tail(s), -1)
    ELSE IF s # <<>> /\ Head(s) = Plus THEN Unsigned(Tail(s), 1)
    ELSE Unsigned(s, 1)

\* std::stoi(s): white space, an optional sign, digits; what follows the
\* digits is ignored; ok is FALSE when it throws std::invalid_argument (no
\* digit) or std::out_of_range
stoi(s) == Signed(SkipSpace(s))

(***************************************************************************)
(* The heap of AvlNode cells.                                              *)
(***************************************************************************)
Addrs == 1..MaxNodes

FreeCell ==
    [live |-> FALSE, key |-> <<>>, left |-> Null, right |-> Null,
     height |-> 0, wordMap |-> EmptyMap]

\* struct AvlNode and its constructor
AvlNode(theKey, lt, rt, h) ==
    [live |-> TRUE, key |-> theKey, left |-> lt, right |-> rt,
     height |-> h, wordMap |-> EmptyMap]

FreeAddrs(h) == {a \in Addrs : ~h[a].live}

\* operator new: the lowest free cell
NewAddr(h) == CHOOSE a \in FreeAddrs(h) : \A b \in FreeAddrs(h) : a <= b

(***************************************************************************)
(* The program never looks at the value of an address, only at what it     *)
(* points to, so a state stands for all its renumberings.  Canon picks the *)
(* renumbering in which the cells are numbered in the order a preorder     *)
(* walk from the roots (in the order of rs) meets them.                    *)
(***************************************************************************)
RECURSIVE Preorder(_, _)
Preorder(h, t) ==
    IF t = Null THEN <<>>
    ELSE <<t>> \o Preorder(h, h[t].left) \o Preorder(h, h[t].right)

RECURSIVE PreorderAll(_, _)
PreorderAll(h, rs) ==
    IF rs = <<>> THEN <<>>
    ELSE Preorder(h, Head(rs)) \o PreorderAll(h, Tail(rs))

RECURSIVE Dedup(_, _)
Dedup(q, seen) ==
    IF q = <<>> THEN <<>>
    ELSE IF Head(q) \in seen THEN Dedup(Tail(q), seen)
    ELSE <<Head(q)>> \o Dedup(Tail(q), seen \cup {Head(q)})

RECURSIVE Ascending(_)
Ascending(S) ==
    IF S = {} THEN <<>>
    ELSE LET m == CHOOSE a \in S : \A b \in S : a <= b
         IN  <<m>> \o Ascending(S \ {m})

\* the number cell a gets when the cells are met in the order given
Renumber(order, a) ==
    IF a = Null THEN Null ELSE CHOOSE i \in DOMAIN order : order[i] = a

Renumbered(h, rs, order) ==
    [heap |-> [i \in Addrs |->
                 [h[order[i]] EXCEPT !.left = Renumber(order, @),
                                     !.right = Renumber(order, @)]],
     roots |-> [i \in DOMAIN rs |-> Renumber(order, rs[i])]]

\* the cells reached first, then the others
Order(reach) == reach \o Ascending(Addrs \ {reach[i] : i \in DOMAIN reach})

Canon(h, rs) == Renumbered(h, rs, Order(Dedup(PreorderAll(h, rs), {})))

(***************************************************************************)
(* The private helpers of AvlTree.                                         *)
(***************************************************************************)
\* height of a subtree, -1 for the empty one
height(h, t) == IF t = Null THEN -1 ELSE h[t].height

\* t->height = max(height(t->left), height(t->right)) + 1
setHeight(h, t) ==
    [h EXCEPT ![t].height =
        Max(height(h, h[t].left), height(h, h[t].right)) + 1]

\* the results the helpers hand back: the heap, and the pointer they
\* received by reference
Ptr(h, t) == [heap |-> h, t |-> t]

rotateWithLeftChild(h, k2) ==
    LET k1 == h[k2].left
    IN  Ptr(setHeight(setHeight([h EXCEPT ![k2].left = h[k1].right,
                                          ![k1].right = k2], k2), k1), k1)

rotateWithRightChild(h, k1) ==
    LET k2 == h[k1].right
    IN  Ptr(setHeight(setHeight([h EXCEPT ![k1].right = h[k2].left,
                                          ![k2].left = k1], k1), k2), k2)

\* relink the child a rotation has replaced
setLeft(r, t) == [r.heap EXCEPT ![t].left = r.t]

setRight(r, t) == [r.heap EXCEPT ![t].right = r.t]

doubleWithLeftChild(h, k3) ==
    rotateWithLeftChild(setLeft(rotateWithRightChild(h, h[k3].left), k3), k3)

doubleWithRightChild(h, k1) ==
    rotateWithRightChild(setRight(rotateWithLeftChild(h, h[k1].right), k1), k1)

\* (the height is not recomputed)
balanced_Stale(rot) == Ptr(rot.heap, rot.t)

\* the last statement of balance: the height of the (new) root of the subtree
balanced(rot) == Ptr(setHeight(rot.heap, rot.t), rot.t)

\* rebalance the subtree rooted at t and recompute the height of its root
balance(h, t) ==
    IF t = Null THEN Ptr(h, t)
    ELSE balanced(
            IF height(h, h[t].left) - height(h, h[t].right) > ALLOWED_IMBALANCE
            THEN IF height(h, h[h[t].left].left) >= height(h, h[h[t].left].right)
                 THEN rotateWithLeftChild(h, t)
                 ELSE doubleWithLeftChild(h, t)
            ELSE IF height(h, h[t].right) - height(h, h[t].left) > ALLOWED_IMBALANCE
            THEN IF height(h, h[h[t].right].right) >= height(h, h[h[t].right].left)
                 THEN rotateWithRightChild(h, t)
                 ELSE doubleWithRightChild(h, t)
            ELSE Ptr(h, t))

\* what insert(x, documentID, frequency, t) leaves: the heap, the pointer t
\* and the uniqueTokens member
Counted(b, n) == [heap |-> b.heap, t |-> b.t, uniqueTokens |-> n]

\* wordMap[documentID] = frequency, where the code has +=
setPosting_Overwrite(h, t, documentID, frequency) ==
    [h EXCEPT ![t].wordMap =
        [d \in DOMAIN @ \cup {documentID} |->
            IF d = documentID THEN frequency ELSE @[d]]]

\* t->wordMap[documentID] += frequency
setPosting(h, t, documentID, frequency) ==
    [h EXCEPT ![t].wordMap = AddCount(@, documentID, frequency)]

\* t = new AvlNode{x} with the first posting
newNode(h, a, x, documentID, frequency) ==
    setPosting([h EXCEPT ![a] = AvlNode(x, Null, Null, 0)],
               a, documentID, frequency)

\* the key is absent: a new leaf, one more distinct key
newLeaf(h, n, x, documentID, frequency) ==
    Counted(balance(newNode(h, NewAddr(h), x, documentID, frequency),
                    NewAddr(h)), n + 1)

\* a posting update that counts the key again
updatePosting_Recount(h, n, t, documentID, frequency) ==
    Counted(balance(setPosting(h, t, documentID, frequency), t), n + 1)

\* a posting update that makes the node a leaf again
updatePosting_ResetHeight(h, n, t, documentID, frequency) ==
    Counted(Ptr([setPosting(h, t, documentID, frequency)
                    EXCEPT ![t].height = 0], t), n)

\* the key is present at t: add the count to the document's posting
updatePosting(h, n, t, documentID, frequency) ==
    Counted(balance(setPosting(h, t, documentID, frequency), t), n)

\* back from the left (right) subtree: relink it, rebalance t
afterLeft(r, t) == Counted(balance(setLeft(r, t), t), r.uniqueTokens)

afterRight(r, t) == Counted(balance(setRight(r, t), t), r.uniqueTokens)

\* insert(x, documentID, frequency, t): the recursive descent; n is the
\* uniqueTokens member, t the pointer the call receives by reference
RECURSIVE insertAt(_, _, _, _, _, _)
insertAt(h, n, t, x, documentID, frequency) ==
    IF t = Null THEN newLeaf(h, n, x, documentID, frequency)
    ELSE IF Less(x, h[t].key) THEN
        afterLeft(insertAt(h, n, h[t].left, x, documentID, frequency), t)
    ELSE IF Less(h[t].key, x) THEN
        afterRight(insertAt(h, n, h[t].right, x, documentID, frequency), t)
    ELSE updatePosting(h, n, t, documentID, frequency)

\* contains(x, t)
RECURSIVE containsAt(_, _, _)
containsAt(h, x, t) ==
    IF t = Null THEN FALSE
    ELSE IF Less(x, h[t].key) THEN containsAt(h, x, h[t].left)
    ELSE IF Less(h[t].key, x) THEN containsAt(h, x, h[t].right)
    ELSE TRUE

\* findNode(x, t)
RECURSIVE findNodeAt(_, _, _)
findNodeAt(h, x, t) ==
    IF t = Null THEN Null
    ELSE IF Less(x, h[t].key) THEN findNodeAt(h, x, h[t].left)
    ELSE IF Less(h[t].key, x) THEN findNodeAt(h, x, h[t].right)
    ELSE t

\* makeEmpty(t): delete every node of the subtree, null the pointer it
\* received by reference and reset the count of distinct keys
RECURSIVE makeEmptyAt(_, _)
makeEmptyAt(h, t) ==
    IF t = Null THEN Counted(Ptr(h, Null), 0)
    ELSE Counted(Ptr([makeEmptyAt(makeEmptyAt(h, h[t].left).heap,
                                  h[t].right).heap EXCEPT ![t] = FreeCell],
                     Null), 0)

\* new AvlNode{key, lt, rt, height} with the postings of the node src
copyNode(g, a, src, lt, rt) ==
    Ptr([g EXCEPT ![a] = [AvlNode(src.key, lt, rt, src.height) EXCEPT
                             !.wordMap = src.wordMap]], a)

\* the right subtree is cloned after the left one, then the node itself
cloneRight(r, src, lt) == copyNode(r.heap, NewAddr(r.heap), src, lt, r.t)

\* clone(t): a new node for every node of the subtree
RECURSIVE clone(_, _)
RECURSIVE cloneLeft(_, _, _)
cloneLeft(l, h, t) == cloneRight(clone(l.heap, h[t].right), h[t], l.t)

clone(h, t) ==
    IF t = Null THEN Ptr(h, Null)
    ELSE cloneLeft(clone(h, h[t].left), h, t)

(***************************************************************************)
(* The public interface of AvlTree, on one object: w is the object's part  *)
(* of the state, [heap, root, uniqueTokens].                               *)
(***************************************************************************)
World(o) == [heap |-> heap, root |-> root[o], uniqueTokens |-> uniqueTokens[o]]

getSize(w) == w.uniqueTokens

isEmpty(w) == w.root = Null

\* a lookup that compares the key of the root only
contains_RootOnly(w, x) == w.root # Null /\ w.heap[w.root].key = x

contains(w, x) == containsAt(w.heap, x, w.root)

findNode(w, x) == findNodeAt(w.heap, x, w.root)

\* (only the root is looked at)
getWordMapAtKey_RootOnly(w, key) ==
    IF w.root # Null /\ w.heap[w.root].key = key
    THEN w.heap[w.root].wordMap ELSE EmptyMap

getWordMapAtKey(w, key) ==
    LET node == findNode(w, key)
    IN  IF node # Null THEN w.heap[node].wordMap ELSE EmptyMap

\* the object after a helper has run on its root
Object(r) == [heap |-> r.heap, root |-> r.t, uniqueTokens |-> r.uniqueTokens]

insert(w, x, documentID, frequency) ==
    Object(insertAt(w.heap, w.uniqueTokens, w.root, x, documentID, frequency))

\* a makeEmpty that drops the root and keeps the count
makeEmpty_KeepCount(w) ==
    Object(Counted(makeEmptyAt(w.heap, w.root), w.uniqueTokens))

makeEmpty(w) == Object(makeEmptyAt(w.heap, w.root))

\* a copy constructor that takes over the nodes of rhs
copyConstruct_Shallow(h, rhsRoot) == Object(Counted(Ptr(h, rhsRoot), 0))

\* AvlTree(const AvlTree &rhs): root{nullptr}, then root = clone(rhs.root);
\* uniqueTokens keeps its default member initializer
copyConstruct(h, rhsRoot) == Object(Counted(clone(h, rhsRoot), 0))

\* a copy assignment that takes over the nodes of rhs
assign_Shallow(w, rhsRoot, same) ==
    IF same THEN w ELSE [makeEmpty(w) EXCEPT !.root = rhsRoot]

\* operator=(const AvlTree &rhs); same is this == &rhs
cloneInto(e, rhsRoot) ==
    Object(Counted(clone(e.heap, rhsRoot), e.uniqueTokens))

assign(w, rhsRoot, same) ==
    IF same THEN w ELSE cloneInto(makeEmpty(w), rhsRoot)

(***************************************************************************)
(* Persistence.  The file is the sequence of its characters.               *)
(***************************************************************************)
\* the least of a non-empty set of strings
FirstOf(S) == CHOOSE d \in S : \A e \in S : d = e \/ Less(d, e)

\* the (doc,count) groups of a posting map, in ascending order of document
RECURSIVE writePostings(_)
writeGroup(m, d) ==
    <<OpenParen>> \o d \o <<Comma>> \o ToChars(m[d]) \o <<CloseParen>>
        \o writePostings([e \in DOMAIN m \ {d} |-> m[e]])

writePostings(m) ==
    IF DOMAIN m = {} THEN <<>> ELSE writeGroup(m, FirstOf(DOMAIN m))

\* the line of a node: key:(doc1,count1)(doc2,count2)...
writeLine(node) ==
    node.key \o <<Colon>> \o writePostings(node.wordMap) \o <<Newline>>

\* one line per node, by in-order traversal
RECURSIVE writeHelper(_, _)
writeHelper(h, t) ==
    IF t = Null THEN <<>>
    ELSE writeHelper(h, h[t].left) \o writeLine(h[t])
             \o writeHelper(h, h[t].right)

\* (only the line of the root is written)
writeToTextFile_RootOnly(w) ==
    IF w.root = Null THEN <<>> ELSE writeLine(w.heap[w.root])

\* writeToTextFile(filename): the characters the file holds afterwards
writeToTextFile(w) == writeHelper(w.heap, w.root)

\* what the reader did: the insert calls it made, in order, and whether an
\* exception ended it
Calls(cs, threw) == [calls |-> cs, threw |-> threw]

Then(call, rest) == [calls |-> <<call>> \o rest.calls, threw |-> rest.threw]

Joined(a, b) == [calls |-> a.calls \o b.calls, threw |-> b.threw]

\* the inner loop of readFromTextFile: the groups of a line from colonPos on
RECURSIVE readGroups(_, _, _)
frequencyAt(line, key, openParenPos, commaPos, closeParenPos, frequency) ==
    IF ~frequency.ok THEN Calls(<<>>, TRUE)
    ELSE Then(<<key,
                Substr(line, openParenPos + 1, commaPos - openParenPos - 1),
                frequency.value>>,
              readGroups(line, key, closeParenPos + 1))

closeAt(line, key, openParenPos, commaPos, closeParenPos) ==
    IF commaPos = npos \/ closeParenPos = npos THEN Calls(<<>>, FALSE)
    ELSE frequencyAt(line, key, openParenPos, commaPos, closeParenPos,
                     stoi(Substr(line, commaPos + 1,
                                 closeParenPos - commaPos - 1)))

commaAt(line, key, openParenPos, commaPos) ==
    closeAt(line, key, openParenPos, commaPos,
            Find(line, CloseParen, commaPos))

openAt(line, key, openParenPos) ==
    IF openParenPos = npos THEN Calls(<<>>, FALSE)
    ELSE commaAt(line, key, openParenPos, Find(line, Comma, openParenPos))

readGroups(line, key, colonPos) ==
    openAt(line, key, Find(line, OpenParen, colonPos))

\* the body of the outer loop: a line without a colon is skipped
readLineAt(line, colonPos) ==
    IF colonPos = npos THEN Calls(<<>>, FALSE)
    ELSE readGroups(line, Substr(line, 0, colonPos), colonPos)

readLine(line) == readLineAt(line, Find(line, Colon, 0))

\* the outer loop: std::getline takes the characters up to the next newline,
\* or the rest of the file when there is none
RECURSIVE readLines(_)
afterLine(groups, rest) ==
    IF groups.threw THEN groups ELSE Joined(groups, readLines(rest))

getline(f, newlinePos) ==
    IF newlinePos = npos THEN readLine(f)
    ELSE afterLine(readLine(Substr(f, 0, newlinePos)),
                   SubstrFrom(f, newlinePos + 1))

readLines(f) ==
    IF f = <<>> THEN Calls(<<>>, FALSE) ELSE getline(f, Find(f, Newline, 0))

insertCall(w, c) == insert(w, c[1], c[2], c[3])

RECURSIVE insertAll(_, _)
insertAll(w, calls) ==
    IF calls = <<>> THEN w
    ELSE insertAll(insertCall(w, Head(calls)), Tail(calls))

\* (the tree is emptied before the inserts)
Loaded_Fresh(w, r) ==
    [tree |-> insertAll(makeEmpty(w), r.calls), threw |-> r.threw]

Loaded(w, r) == [tree |-> insertAll(w, r.calls), threw |-> r.threw]

\* readFromTextFile(filename) on a file of characters f: the tree after the
\* inserts, and whether std::stoi threw out of it
readFromTextFile(w, f) == Loaded(w, readLines(f))

(***************************************************************************)
(* Inputs.                                                                 *)
(***************************************************************************)
\* the trees of the tests
TestObjs == {"test1", "test2"}

\* the trees of the application
Trees == {"PersonTree", "OrganizationTree", "WordsTree"}

Objs == TestObjs \cup Trees

\* the objects in the order their trees are numbered
ObjSeq == <<"test1", "test2", "PersonTree", "OrganizationTree", "WordsTree">>

\* the keys "a", "b", ... of the balance runs
Letter(i) == <<96 + i>>

Keys == {Letter(i) : i \in 1..NumKeys}

\* the document ids "d1", "d2"
Doc1 == <<100, 49>>

Doc2 == <<100, 50>>

Doc3 == <<100, 51>>

(***************************************************************************)
(* Reading a tree.                                                         *)
(***************************************************************************)
\* the nodes of the subtree rooted at t
RECURSIVE Nodes(_, _)
Nodes(h, t) ==
    IF t = Null THEN {}
    ELSE {t} \cup Nodes(h, h[t].left) \cup Nodes(h, h[t].right)

\* the height of the subtree rooted at t, measured on the links
RECURSIVE TrueHeight(_, _)
TrueHeight(h, t) ==
    IF t = Null THEN -1
    ELSE 1 + Max(TrueHeight(h, h[t].left), TrueHeight(h, h[t].right))

\* the number of links from t down to the node of key x
RECURSIVE Depth(_, _, _)
Depth(h, x, t) ==
    IF t = Null THEN 0
    ELSE IF Less(x, h[t].key) THEN 1 + Depth(h, x, h[t].left)
    ELSE IF Less(h[t].key, x) THEN 1 + Depth(h, x, h[t].right)
    ELSE 0

\* the keys stored in the nodes of object o
KeysOf(o) == {heap[a].key : a \in Nodes(heap, root[o])}

\* the key -> postings mapping of object o, read through the lookups
Mapping(o) == [k \in KeysOf(o) |-> getWordMapAtKey(World(o), k)]

\* the keys history records for object o
InsertedKeys(o) == {p[1] : p \in DOMAIN inserted[o]}

(***************************************************************************)
(* DocumentParser: the text functions the query processor calls.           *)
(***************************************************************************)
\* std::tolower of a character
tolower(ch) == IF ch \in 65..90 THEN ch + 32 ELSE ch

toLower(text) == [i \in DOMAIN text |-> tolower(text[i])]

\* ispunct of a character, in the "C" locale
ispunct(ch) == ch \in (33..47) \cup (58..64) \cup (91..96) \cup (123..126)

Vowels == {97, 101, 105, 111, 117, 121}

\* the stemmer, for the plural ending: a final s goes when the part before
\* it holds a vowel that is not its last letter, and the word does not end
\* in ss or us
stem(word) ==
    IF /\ Len(word) > 2
       /\ word[Len(word)] = 115
       /\ word[Len(word) - 1] \notin {115, 117}
       /\ \E i \in 1..(Len(word) - 2) : word[i] \in Vowels
    THEN SubSeq(word, 1, Len(word) - 1)
    ELSE word

\* stemWord(word): the stemmer's trim lower-cases the word
stemWord(word) == stem(toLower(word))

containsStopWords(word) == toLower(word) \in stopWords

\* tokenizer(textLine): the pieces between the spaces, empty ones included
RECURSIVE tokenizer(_)
tokenizerAt(textLine, i) ==
    IF i = npos THEN <<textLine>>
    ELSE <<Substr(textLine, 0, i)>> \o tokenizer(SubstrFrom(textLine, i + 1))

tokenizer(textLine) == tokenizerAt(textLine, Find(textLine, Space, 0))

(***************************************************************************)
(* QueryProcessor.                                                         *)
(***************************************************************************)
\* "ORG:" and "PERSON:"
OrgPrefix == <<79, 82, 71, Colon>>

PersonPrefix == <<80, 69, 82, 83, 79, 78, Colon>>

\* the page runQueryProcessor prints, and the page of "more documents"
DefaultPage == 15

MorePage == 5

RECURSIVE removePunctuationExcept(_)
removePunctuationExcept(word) ==
    IF word = <<>> THEN <<>>
    ELSE IF ispunct(Head(word)) /\ Head(word) # Colon /\ Head(word) # Dash
    THEN removePunctuationExcept(Tail(word))
    ELSE <<Head(word)>> \o removePunctuationExcept(Tail(word))

\* the two vectors SeperateString pushes to
Terms(ms, bad) == [vectorOfMaps |-> ms, vectorOfBadMaps |-> bad]

\* (the excluded term's map goes to the positive list)
pushWord_BadIntoMaps(q, word) ==
    IF Substr(word, 0, 1) = <<Dash>>
    THEN Terms(Append(q.vectorOfMaps,
                      getWordMapAtKey(World("WordsTree"),
                                      stemWord(SubstrFrom(word, 1)))),
               q.vectorOfBadMaps)
    ELSE IF ~containsStopWords(word) /\ word # <<>>
    THEN Terms(Append(q.vectorOfMaps,
                      getWordMapAtKey(World("WordsTree"), stemWord(word))),
               q.vectorOfBadMaps)
    ELSE q

\* the body of the loop of SeperateString, for the word without punctuation
pushWord(q, word) ==
    IF Substr(word, 0, 4) = OrgPrefix
    THEN Terms(Append(q.vectorOfMaps,
                      getWordMapAtKey(World("OrganizationTree"),
                                      SubstrFrom(word, 4))),
               q.vectorOfBadMaps)
    ELSE IF Substr(word, 0, 7) = PersonPrefix
    THEN Terms(Append(q.vectorOfMaps,
                      getWordMapAtKey(World("PersonTree"),
                                      toLower(SubstrFrom(word, 7)))),
               q.vectorOfBadMaps)
    ELSE IF Substr(word, 0, 1) = <<Dash>>
    THEN Terms(q.vectorOfMaps,
               Append(q.vectorOfBadMaps,
                      getWordMapAtKey(World("WordsTree"),
                                      stemWord(SubstrFrom(word, 1)))))
    ELSE IF ~containsStopWords(word) /\ word # <<>>
    THEN Terms(Append(q.vectorOfMaps,
                      getWordMapAtKey(World("WordsTree"), stemWord(word))),
               q.vectorOfBadMaps)
    ELSE q

RECURSIVE pushWords(_, _)
pushWords(q, wordsToSearch) ==
    IF wordsToSearch = <<>> THEN q
    ELSE pushWords(pushWord(q, removePunctuationExcept(Head(wordsToSearch))),
                   Tail(wordsToSearch))

SeperateString(q, s) == pushWords(q, tokenizer(s))

\* intersectMaps(map1, map2): the documents of both, with the counts added
\* (the count of map2 is not added)
intersectMaps_FirstCount(map1, map2) ==
    [d \in DOMAIN map1 \cap DOMAIN map2 |-> map1[d]]

\* (an empty map2 is passed over)
intersectMaps_SkipEmpty(map1, map2) ==
    IF map2 = EmptyMap THEN map1
    ELSE [d \in DOMAIN map1 \cap DOMAIN map2 |-> map1[d] + map2[d]]

intersectMaps(map1, map2) ==
    [d \in DOMAIN map1 \cap DOMAIN map2 |-> map1[d] + map2[d]]

\* what intersectMaps leaves of map2: the matched documents are erased
erased(map1, map2) == [d \in DOMAIN map2 \ DOMAIN map1 |-> map2[d]]

\* excludeMaps(map, badMap)
excludeMaps(map, badMap) == [d \in DOMAIN map \ DOMAIN badMap |-> map[d]]

\* the state of processQuery: its result and the two vectors
Answer(result, ms, bad) ==
    [result |-> result, vectorOfMaps |-> ms, vectorOfBadMaps |-> bad]

\* the second loop of processQuery, from bad map i on
RECURSIVE excludeFrom(_, _)
excludeFrom(p, i) ==
    IF i > Len(p.vectorOfBadMaps) THEN p
    ELSE excludeFrom(Answer(excludeMaps(p.result, p.vectorOfBadMaps[i]),
                           p.vectorOfMaps, p.vectorOfBadMaps),
                     i + 1)

\* the first loop of processQuery, from map i on (i counts from 1 here)
RECURSIVE intersectFrom(_, _)
intersectFrom(p, i) ==
    IF i > Len(p.vectorOfMaps) THEN p
    ELSE intersectFrom(Answer(intersectMaps(p.result, p.vectorOfMaps[i]),
                             [p.vectorOfMaps EXCEPT
                                 ![i] = erased(p.result, @)],
                             p.vectorOfBadMaps),
                       i + 1)

separated(q) ==
    IF q.vectorOfMaps = <<>>
    THEN Answer(EmptyMap, q.vectorOfMaps, q.vectorOfBadMaps)
    ELSE excludeFrom(intersectFrom(Answer(q.vectorOfMaps[1], q.vectorOfMaps,
                                         q.vectorOfBadMaps), 2), 1)

\* processQuery(search), run on the vectors q
processQuery(q, s) == separated(SeperateString(q, s))

\* the (document, score) pairs of a map
PairsOf(m) == {<<d, m[d]>> : d \in DOMAIN m}

\* (the comparison the other way round)
Top_Least(S) == {p \in S : \A q \in S : p[2] <= q[2]}

\* the pairs of S no pair of S has a greater score than
Top(S) == {p \in S : \A q \in S : p[2] >= q[2]}

\* the orders of the pairs S by descending score: any pair of the greatest
\* score first, then the others in such an order
RECURSIVE Orders(_)
Orders(S) ==
    IF S = {} THEN {<<>>}
    ELSE UNION {{<<p>> \o r : r \in Orders(S \ {p})} : p \in Top(S)}

\* sortDocumentsByFrequency(documentFrequencyMap): std::sort by descending
\* score leaves the order of equal scores open
sortDocumentsByFrequency(documentFrequencyMap) ==
    Orders(PairsOf(documentFrequencyMap))

\* (the cursor is not moved on)
outputDocuments_NoAdvance(pairs, startIndex, numDocuments) ==
    IF startIndex >= Len(pairs)
    THEN [pairs |-> <<>>, none |-> TRUE, searchIndex |-> startIndex]
    ELSE [pairs |-> SubSeq(pairs, startIndex + 1,
                           Min(startIndex + Max(numDocuments, 0), Len(pairs))),
          none |-> FALSE,
          searchIndex |-> startIndex]

\* (a cursor at the end is not seen as the end)
outputDocuments_PastEnd(pairs, startIndex, numDocuments) ==
    IF startIndex > Len(pairs)
    THEN [pairs |-> <<>>, none |-> TRUE, searchIndex |-> startIndex]
    ELSE [pairs |-> SubSeq(pairs, startIndex + 1,
                           Min(startIndex + Max(numDocuments, 0), Len(pairs))),
          none |-> FALSE,
          searchIndex |-> Min(startIndex + Max(numDocuments, 0), Len(pairs))]

\* outputDocuments(numDocuments) on the pairs and the cursor: what it
\* prints and where it leaves the cursor
outputDocuments(pairs, startIndex, numDocuments) ==
    IF startIndex >= Len(pairs)
    THEN [pairs |-> <<>>, none |-> TRUE, searchIndex |-> startIndex]
    ELSE [pairs |-> SubSeq(pairs, startIndex + 1,
                           Min(startIndex + Max(numDocuments, 0), Len(pairs))),
          none |-> FALSE,
          searchIndex |-> Min(startIndex + Max(numDocuments, 0), Len(pairs))]

\* (an index past the end gives the last name)
getDocumentName_Clamped(pairs, index) ==
    IF pairs = <<>> THEN <<>>
    ELSE pairs[Min(index, Len(pairs) - 1) + 1][1]

\* getDocumentName(index)
getDocumentName(pairs, index) ==
    IF index >= Len(pairs) THEN <<>> ELSE pairs[index + 1][1]

\* the query processor and the stop words before their first use
InitQueryVars ==
    /\ stopWords = {}
    /\ vectorOfMaps = <<>>
    /\ vectorOfBadMaps = <<>>
    /\ documentFrequencyPairs = <<>>
    /\ searchIndex = 0
    /\ search = <<>>
    /\ output = [pairs |-> <<>>, none |-> FALSE]
    /\ emitted = <<>>
    /\ docName = <<>>

(***************************************************************************)
(* Initial state: test1 is default-constructed, test2 does not exist yet.  *)
(***************************************************************************)
Init ==
    /\ heap = [a \in Addrs |-> FreeCell]
    /\ alive = [o \in Objs |-> o = "test1"]
    /\ root = [o \in Objs |-> Null]
    /\ uniqueTokens = [o \in Objs |-> 0]
    /\ inserted = [o \in Objs |-> EmptyMap]
    /\ file = <<>>
    /\ terminated = FALSE
    /\ saved = [k \in {} |-> EmptyMap]
    /\ InitQueryVars
    /\ last = [op |-> "construct", obj |-> "test1", from |-> "test1", arg |-> 0]

\* write the object's part of the state back
StoreCanon(o, c, n) ==
    /\ heap' = c.heap
    /\ root' = [p \in Objs |->
                   c.roots[CHOOSE i \in DOMAIN ObjSeq : ObjSeq[i] = p]]
    /\ uniqueTokens' = [uniqueTokens EXCEPT ![o] = n]

Store(o, w) ==
    StoreCanon(o, Canon(w.heap, [i \in DOMAIN ObjSeq |->
                                   IF ObjSeq[i] = o THEN w.root
                                   ELSE root[ObjSeq[i]]]),
               w.uniqueTokens)

\* the count (key, document) would reach stays within the explored range
InRange(o, x, documentID, frequency, cap) ==
    LET m == AddCount(inserted[o], <<x, documentID>>, frequency)
    IN  m[<<x, documentID>>] \in (0 - cap)..cap

\* avlTree.insert(x, documentID, frequency)
Insert(o, x, documentID, frequency) ==
    /\ ~terminated /\ alive[o]
    /\ contains(World(o), x) \/ FreeAddrs(heap) # {}
    /\ Store(o, insert(World(o), x, documentID, frequency))
    /\ inserted' = [inserted EXCEPT
                       ![o] = AddCount(@, <<x, documentID>>, frequency)]
    /\ last' = [op |-> "insert", obj |-> o, from |-> o,
                arg |-> IF contains(World(o), x) THEN 1
                        ELSE IF \E k \in KeysOf(o) :
                                   Depth(heap', k, root'[o]) # Depth(heap, k, root[o])
                        THEN 2 ELSE 0]
    /\ UNCHANGED <<alive, terminated, fileVars, queryVars>>

\* avlTree.makeEmpty()
MakeEmpty(o) ==
    /\ ~terminated /\ alive[o]
    /\ Store(o, makeEmpty(World(o)))
    /\ inserted' = [inserted EXCEPT ![o] = EmptyMap]
    /\ last' = [op |-> "makeEmpty", obj |-> o, from |-> o,
                arg |-> Cardinality(Nodes(heap, root[o]))]
    /\ UNCHANGED <<alive, terminated, fileVars, queryVars>>

\* AvlTree o(rhs): the copy constructor brings object o to life
CopyConstruct(o, rhs) ==
    /\ ~terminated /\ ~alive[o] /\ alive[rhs]
    /\ Cardinality(FreeAddrs(heap)) >= Cardinality(Nodes(heap, root[rhs]))
    /\ Store(o, copyConstruct(heap, root[rhs]))
    /\ alive' = [alive EXCEPT ![o] = TRUE]
    /\ inserted' = [inserted EXCEPT ![o] = inserted[rhs]]
    /\ last' = [op |-> "copy", obj |-> o, from |-> rhs,
                arg |-> Cardinality(Nodes(heap, root[rhs]))]
    /\ UNCHANGED <<terminated, fileVars, queryVars>>

\* o = rhs: copy assignment
Assign(o, rhs) ==
    /\ ~terminated /\ alive[o] /\ alive[rhs]
    /\ o = rhs \/ Cardinality(FreeAddrs(heap)) + Cardinality(Nodes(heap, root[o]))
                     >= Cardinality(Nodes(heap, root[rhs]))
    /\ Store(o, assign(World(o), root[rhs], o = rhs))
    /\ inserted' = [inserted EXCEPT ![o] = inserted[rhs]]
    /\ last' = [op |-> "assign", obj |-> o, from |-> rhs,
                arg |-> Cardinality(Nodes(heap, root[o]))]
    /\ UNCHANGED <<alive, terminated, fileVars, queryVars>>

\* ~AvlTree(): the destructor runs makeEmpty and the object is gone
Destroy(o) ==
    /\ ~terminated /\ alive[o]
    /\ Store(o, makeEmpty(World(o)))
    /\ alive' = [alive EXCEPT ![o] = FALSE]
    /\ inserted' = [inserted EXCEPT ![o] = EmptyMap]
    /\ last' = [op |-> "destroy", obj |-> o, from |-> o,
                arg |-> Cardinality(Nodes(heap, root[o]))]
    /\ UNCHANGED <<terminated, fileVars, queryVars>>

\* history: the counts after a sequence of insert calls
RECURSIVE AddCalls(_, _)
AddCalls(m, calls) ==
    IF calls = <<>> THEN m
    ELSE AddCalls(AddCount(m, <<Head(calls)[1], Head(calls)[2]>>,
                           Head(calls)[3]),
                  Tail(calls))

\* avlTree.writeToTextFile(filename)
WriteToTextFile(o) ==
    /\ ~terminated /\ alive[o]
    /\ file' = writeToTextFile(World(o))
    /\ saved' = Mapping(o)
    /\ last' = [op |-> "write", obj |-> o, from |-> o,
                arg |-> Cardinality(Nodes(heap, root[o]))]
    /\ UNCHANGED <<heap, alive, root, uniqueTokens, inserted, terminated,
                   queryVars>>

\* avlTree.readFromTextFile(filename); an exception of std::stoi is caught
\* nowhere and ends the program
ReadFromTextFile(o) ==
    /\ ~terminated /\ alive[o]
    /\ Cardinality({c[1] : c \in {readLines(file).calls[i] :
                                    i \in DOMAIN readLines(file).calls}}
                       \ KeysOf(o))
           <= Cardinality(FreeAddrs(heap))
    /\ Store(o, readFromTextFile(World(o), file).tree)
    /\ terminated' = readFromTextFile(World(o), file).threw
    /\ inserted' = [inserted EXCEPT
                       ![o] = AddCalls(@, readLines(file).calls)]
    /\ last' = [op |-> "read", obj |-> o, from |-> o,
                arg |-> Cardinality(Nodes(heap, root[o]))]
    /\ UNCHANGED <<alive, fileVars, queryVars>>

\* DocumentParser::loadStopWords("stopWords.txt"), which runDocument calls
\* while the set is empty; the file holds the word "the"
LoadStopWords ==
    /\ ~terminated
    /\ stopWords = {}
    /\ stopWords' = stopWords \cup {<<116, 104, 101>>}
    /\ last' = [op |-> "loadStopWords", obj |-> "docParse", from |-> "docParse",
                arg |-> 0]
    /\ UNCHANGED <<heap, alive, root, uniqueTokens, inserted, terminated,
                   fileVars, vectorOfMaps, vectorOfBadMaps,
                   documentFrequencyPairs, searchIndex, search, output,
                   emitted, docName>>

Printed(out) ==
    /\ searchIndex' = out.searchIndex
    /\ output' = [pairs |-> out.pairs, none |-> out.none]

\* (the cursor is not reset)
Ranked_KeepCursor(p, ranked) ==
    /\ vectorOfMaps' = p.vectorOfMaps
    /\ vectorOfBadMaps' = p.vectorOfBadMaps
    /\ documentFrequencyPairs' = ranked
    /\ Printed(outputDocuments(ranked, searchIndex, DefaultPage))

Ranked(p, ranked) ==
    /\ vectorOfMaps' = p.vectorOfMaps
    /\ vectorOfBadMaps' = p.vectorOfBadMaps
    /\ documentFrequencyPairs' = ranked
    /\ Printed(outputDocuments(ranked, 0, DefaultPage))

Answered(p) ==
    \E ranked \in sortDocumentsByFrequency(p.result) : Ranked(p, ranked)

\* queryProc.runQueryProcessor(search): the two clear() calls and the reset
\* of the cursor, processQuery, the sort and the first page; the statement
\* "vectorOfBadMaps;" leaves that vector as it is
RunQueryProcessor(s) ==
    /\ ~terminated
    /\ Answered(processQuery(Terms(<<>>, vectorOfBadMaps), s))
    /\ search' = s
    /\ last' = [op |-> "query", obj |-> "queryProc", from |-> "queryProc",
                arg |-> Len(vectorOfBadMaps)]
    /\ emitted' = output'.pairs
    /\ UNCHANGED <<heap, alive, root, uniqueTokens, inserted, terminated,
                   fileVars, stopWords, docName>>

\* queryProc.outputDocuments(numDocuments)
OutputDocuments(numDocuments) ==
    /\ ~terminated
    /\ Printed(outputDocuments(documentFrequencyPairs, searchIndex,
                               numDocuments))
    /\ last' = [op |-> "output", obj |-> "queryProc", from |-> "queryProc",
                arg |-> searchIndex]
    /\ UNCHANGED <<heap, alive, root, uniqueTokens, inserted, terminated,
                   fileVars, stopWords, vectorOfMaps, vectorOfBadMaps,
                   documentFrequencyPairs, search, docName>>
    /\ emitted' = emitted \o output'.pairs

\* the conversion of the int the user typed, less one, to the unsigned
\* size_type of the parameter: a negative value wraps around to the top of
\* the range.  The largest int stands for the largest size_type, which is
\* beyond the numbers TLC counts with; both are past every vector's size.
ToSizeType(i) == IF i < 0 THEN IntMax + (i + 1) ELSE i

\* performQuery, choice 'd': queryProc.getDocumentName(docNumber - 1)
GetDocumentName(docNumber) ==
    /\ ~terminated
    /\ docName' = getDocumentName(documentFrequencyPairs,
                                  ToSizeType(docNumber - 1))
    /\ last' = [op |-> "name", obj |-> "queryProc", from |-> "queryProc",
                arg |-> docNumber]
    /\ UNCHANGED <<heap, alive, root, uniqueTokens, inserted, terminated,
                   fileVars, stopWords, vectorOfMaps, vectorOfBadMaps,
                   documentFrequencyPairs, searchIndex, search, output,
                   emitted>>

(***************************************************************************)
(* Spec: one tree grown by inserts of single-letter keys, and emptied.     *)
(***************************************************************************)
InsertKey ==
    \E x \in Keys :
        InRange("test1", x, Doc1, 1, MaxRepeat) /\ Insert("test1", x, Doc1, 1)

Next ==
    \/ InsertKey
    \/ MakeEmpty("test1")

Spec == Init /\ [][Next]_vars

(***************************************************************************)
(* SpecCopy: two trees over three keys; test2 is made by copy construction *)
(* and both are inserted into, emptied and assigned to one another.  The   *)
(* key "a" may be inserted again, the others once.                         *)
(***************************************************************************)
CopyKeys == {Letter(1), Letter(2), Letter(3)}

Docs == {Doc1, Doc2}

InsertCopy(o) ==
    \E x \in CopyKeys :
        /\ InRange(o, x, Doc1, 1, IF x = Letter(1) THEN MaxCopyCount ELSE 1)
        /\ Insert(o, x, Doc1, 1)

NextCopy ==
    \/ \E o \in TestObjs : InsertCopy(o)
    \/ \E o \in TestObjs : MakeEmpty(o)
    \/ CopyConstruct("test2", "test1")
    \/ \E o, rhs \in TestObjs : Assign(o, rhs)
    \/ Destroy("test2")

SpecCopy == Init /\ [][NextCopy]_vars

(***************************************************************************)
(* SpecPost: one tree over three keys, postings of two documents with      *)
(* counts 1 and 2.                                                         *)
(***************************************************************************)
InsertPosting ==
    \E x \in CopyKeys : \E d \in Docs : \E f \in {1, 2} :
        InRange("test1", x, d, f, MaxCount) /\ Insert("test1", x, d, f)

NextPost ==
    \/ InsertPosting
    \/ MakeEmpty("test1")

SpecPost == Init /\ [][NextPost]_vars

(***************************************************************************)
(* SpecFile: test1 is populated, saved to the file, and the file is loaded *)
(* into the empty test2.  Keys and document ids hold the characters of the *)
(* file format as well as letters.                                         *)
(***************************************************************************)
InitFile ==
    /\ heap = [a \in Addrs |-> FreeCell]
    /\ alive = [o \in Objs |-> o \in TestObjs]
    /\ root = [o \in Objs |-> Null]
    /\ uniqueTokens = [o \in Objs |-> 0]
    /\ inserted = [o \in Objs |-> EmptyMap]
    /\ file = <<>>
    /\ terminated = FALSE
    /\ saved = [k \in {} |-> EmptyMap]
    /\ InitQueryVars
    /\ last = [op |-> "construct", obj |-> "test2", from |-> "test2", arg |-> 0]

\* "a", "b", "a:b", "(c"
FileKeys == {Letter(1), Letter(2), <<97, Colon, 98>>, <<OpenParen, 99>>}

\* "d1", "d,", "d)"
FileDocs == {Doc1, <<100, Comma>>, <<100, CloseParen>>}

FileCounts == {1, 12}

InsertFile ==
    \E x \in FileKeys : \E d \in FileDocs : \E f \in FileCounts :
        /\ file = <<>>
        /\ Cardinality(DOMAIN inserted["test1"]) < MaxFileInserts
        /\ <<x, d>> \notin DOMAIN inserted["test1"]
        /\ Insert("test1", x, d, f)

NextFile ==
    \/ InsertFile
    \/ WriteToTextFile("test1")
    \/ isEmpty(World("test2")) /\ ReadFromTextFile("test2")
    \/ MakeEmpty("test2")

SpecFile == InitFile /\ [][NextFile]_vars

(***************************************************************************)
(* SpecQuery: the three trees of the application are filled with postings  *)
(* of the words "bank" and "loan", the person "bob" and the organization   *)
(* "Acme"; then queries run on one QueryProcessor, one after the other.    *)
(***************************************************************************)
InitQuery ==
    /\ heap = [a \in Addrs |-> FreeCell]
    /\ alive = [o \in Objs |-> o \in Trees]
    /\ root = [o \in Objs |-> Null]
    /\ uniqueTokens = [o \in Objs |-> 0]
    /\ inserted = [o \in Objs |-> EmptyMap]
    /\ file = <<>>
    /\ terminated = FALSE
    /\ saved = [k \in {} |-> EmptyMap]
    /\ InitQueryVars
    /\ last = [op |-> "construct", obj |-> "queryProc", from |-> "queryProc",
               arg |-> 0]

Bank == <<98, 97, 110, 107>>

Loan == <<108, 111, 97, 110>>

Bob == <<98, 111, 98>>

Acme == <<65, 99, 109, 101>>

\* the insert calls of the indexing: tree, key, document, count
Postings ==
    {<<"WordsTree", Bank, Doc1, 3>>, <<"WordsTree", Bank, Doc2, 1>>,
     <<"WordsTree", Loan, Doc1, 2>>, <<"WordsTree", Loan, Doc3, 4>>,
     <<"PersonTree", Bob, Doc2, 1>>, <<"OrganizationTree", Acme, Doc1, 1>>}

Unknown == <<120, 121, 122>>

\* "bank", "loan", "bank loan", "bank -loan", "-bank", "-loan bank",
\* "the Banks", "PERSON:Bob bank", "ORG:Acme loan!", "the", "bank xyz", "xyz"
Queries ==
    {Bank, Loan, Bank \o <<Space>> \o Loan,
     Bank \o <<Space, Dash>> \o Loan,
     <<Dash>> \o Bank,
     <<Dash>> \o Loan \o <<Space>> \o Bank,
     <<84, 104, 101, Space, 66, 97, 110, 107, 115>>,
     PersonPrefix \o <<66, 111, 98, Space>> \o Bank,
     OrgPrefix \o Acme \o <<Space>> \o Loan \o <<33>>,
     <<116, 104, 101>>, Bank \o <<Space>> \o Unknown, Unknown}

\* the trees are filled before the first query
IndexInsert ==
    \E c \in Postings :
        /\ output = [pairs |-> <<>>, none |-> FALSE]
        /\ <<c[2], c[3]>> \notin DOMAIN inserted[c[1]]
        /\ Insert(c[1], c[2], c[3], c[4])

Query ==
    \E s \in Queries :
        /\ Len(processQuery(Terms(<<>>, vectorOfBadMaps), s).vectorOfBadMaps)
               <= MaxBadMaps
        /\ RunQueryProcessor(s)

NextQuery ==
    \/ IndexInsert
    \/ LoadStopWords
    \/ Query
    \/ OutputDocuments(MorePage)

SpecQuery == InitQuery /\ [][NextQuery]_vars

(***************************************************************************)
(* SpecPage: the word "bank" is indexed in documents d1, d2, ... up to     *)
(* MaxDocs and "loan" in the first MaxLoanDocs of them; the count of       *)
(* "bank" in a document is the document's number, but d5 and d6 have the   *)
(* same.  Then queries run, more pages are asked for and names looked up.  *)
(***************************************************************************)
\* the document id "d<i>"
DocId(i) == <<100>> \o ToChars(i)

PageCount(i) == IF i = 6 THEN 5 ELSE i

\* the number of documents key x of the word index has been inserted with
Indexed(x) ==
    Cardinality({p \in DOMAIN inserted["WordsTree"] : p[1] = x})

InsertBankDoc ==
    \E i \in 1..MaxDocs :
        /\ output = [pairs |-> <<>>, none |-> FALSE]
        /\ i = Indexed(Bank) + 1
        /\ Insert("WordsTree", Bank, DocId(i), PageCount(i))

InsertLoanDoc ==
    \E i \in 1..MaxLoanDocs :
        /\ output = [pairs |-> <<>>, none |-> FALSE]
        /\ i = Indexed(Loan) + 1
        /\ Insert("WordsTree", Loan, DocId(i), 1)

\* "bank", "loan", "bank loan"
PageQueries == {Bank, Loan, Bank \o <<Space>> \o Loan}

\* the numbers of documents a page is asked with
PageSizes == {0, 1, MorePage}

\* the document numbers the user types
DocNumbers == {-1, 0, 1, 16, MaxDocs + 1}

NextPage ==
    \/ InsertBankDoc
    \/ InsertLoanDoc
    \/ \E s \in PageQueries : RunQueryProcessor(s)
    \/ \E n \in PageSizes : OutputDocuments(n)
    \/ \E n \in DocNumbers : GetDocumentName(n)

SpecPage == InitQuery /\ [][NextPage]_vars

(***************************************************************************)
(* SpecLoad: a file of one or two lines, well formed or not, is put in     *)
(* place once; test2 gets a few direct inserts, with counts that may be    *)
(* zero or negative, and then reads the file.                              *)
(***************************************************************************)
\* "(doc,frequency)"
Group(doc, frequency) ==
    <<OpenParen>> \o doc \o <<Comma>> \o frequency \o <<CloseParen>>

\* "key:groups"
Line(key, groups) == key \o <<Colon>> \o groups

\* "b:(d1,1)"
GoodLine == Line(Letter(2), Group(Doc1, ToChars(1)))

\* "ab", "a:(d1", "a:(d1,1", "a:(d1,)", "a:(d1,x)", "a:(d1,0)", "a:(d1,-1)"
BadLines ==
    { Letter(1) \o Letter(2),
      Line(Letter(1), <<OpenParen>> \o Doc1),
      Line(Letter(1), <<OpenParen>> \o Doc1 \o <<Comma>> \o ToChars(1)),
      Line(Letter(1), Group(Doc1, <<>>)),
      Line(Letter(1), Group(Doc1, <<120>>)),
      Line(Letter(1), Group(Doc1, <<Zero>>)),
      Line(Letter(1), Group(Doc1, <<Dash>> \o ToChars(1))) }

\* the bad lines, "b:(d1,1)" and "a:(d1,2)(d2,1)"
LoadLines ==
    BadLines \cup
    { GoodLine,
      Line(Letter(1), Group(Doc1, ToChars(2)) \o Group(Doc2, ToChars(1))) }

\* the ends of a line after a well-formed group: "(d2", "(d2,1", "(d2,)",
\* "(d2,x)"
BadTails ==
    { <<OpenParen>> \o Doc2,
      <<OpenParen>> \o Doc2 \o <<Comma>> \o ToChars(1),
      Group(Doc2, <<>>),
      Group(Doc2, <<120>>) }

\* "a:(d1,2)" and then a bad tail
MixedLines == {Line(Letter(1), Group(Doc1, ToChars(2)) \o t) : t \in BadTails}

\* "a:(d1,2(d2,3)": the first group has no closing parenthesis of its own
OpenLine ==
    Line(Letter(1), <<OpenParen>> \o Doc1 \o <<Comma>> \o ToChars(2)
                        \o Group(Doc2, ToChars(3)))

LoadFiles ==
    {l \o <<Newline>> : l \in LoadLines}
        \cup {l \o <<Newline>> \o GoodLine \o <<Newline>> :
                 l \in LoadLines \cup MixedLines \cup {OpenLine}}
        \cup {GoodLine \o <<Newline>> \o l : l \in BadLines}

LoadCounts == {-1, 0, 1}

PutFile ==
    \E f \in LoadFiles :
        /\ ~terminated /\ file = <<>>
        /\ file' = f
        /\ UNCHANGED <<heap, alive, root, uniqueTokens, inserted, terminated,
                       saved, queryVars, last>>

InsertLoad ==
    \E x \in {Letter(1), Letter(2)} : \E d \in Docs : \E f \in LoadCounts :
        /\ last.op # "read"
        /\ Cardinality(DOMAIN inserted["test2"]) < MaxLoadInserts
        /\ <<x, d>> \notin DOMAIN inserted["test2"]
        /\ Insert("test2", x, d, f)

NextLoad ==
    \/ PutFile
    \/ InsertLoad
    \/ file # <<>> /\ last.op # "read" /\ ReadFromTextFile("test2")
    \/ MakeEmpty("test2")

SpecLoad == InitFile /\ [][NextLoad]_vars

(***************************************************************************)
(* Claims about the tree of Spec.                                          *)
(***************************************************************************)
\* keys a lookup is tried with: the inserted ones and some never inserted
ProbeKeys == Keys \cup {<<>>, Letter(NumKeys + 1), <<97, 97>>}

\* C1: after every insert, every node of the tree has a balance factor
\* height(left) - height(right) in {-1, 0, 1}, on the true subtree heights
C1_Balanced ==
    \A o \in Objs : \A a \in Nodes(heap, root[o]) :
        TrueHeight(heap, heap[a].left) - TrueHeight(heap, heap[a].right)
            \in {-1, 0, 1}

\* an insert into a tree of height two has just rotated below the root:
\* the tree has at least five nodes and is still of height two
C1_Witness ==
    /\ last.op = "insert" /\ last.arg = 2
    /\ Cardinality(Nodes(heap, root["test1"])) >= 5
    /\ TrueHeight(heap, root["test1"]) = 2

\* C3: contains(key) is true exactly for the keys passed to insert, and a
\* tree no key was inserted into is empty
C3_Containment ==
    \A o \in Objs : alive[o] =>
        /\ \A k \in ProbeKeys :
              contains(World(o), k) <=> k \in InsertedKeys(o)
        /\ (inserted[o] = EmptyMap) <=> isEmpty(World(o))

\* every key is in the tree, after a rotation at the root
C3_Witness ==
    /\ InsertedKeys("test1") = Keys
    /\ \A k \in Keys : contains(World("test1"), k)
    /\ ~contains(World("test1"), Letter(NumKeys + 1))
    /\ last.op = "insert" /\ last.arg = 2

\* C4: one node per distinct inserted key, and getSize() is the number of
\* distinct keys inserted
C4_Size ==
    \A o \in Objs : alive[o] =>
        /\ getSize(World(o)) = Cardinality(InsertedKeys(o))
        /\ Cardinality(Nodes(heap, root[o])) = Cardinality(InsertedKeys(o))
        /\ KeysOf(o) = InsertedKeys(o)

\* an insert of a key already present has just left the size at three
C4_Witness ==
    /\ last = [op |-> "insert", obj |-> "test1", from |-> "test1", arg |-> 1]
    /\ getSize(World("test1")) = 3
    /\ \E k \in Keys : inserted["test1"][<<k, Doc1>>] = 2

\* the tree of o is empty: no root, no key found, size 0
Emptied(o) ==
    /\ isEmpty(World(o))
    /\ getSize(World(o)) = 0
    /\ \A k \in ProbeKeys : ~contains(World(o), k)

\* C5: makeEmpty leaves the tree empty with getSize() = 0, changes nothing
\* on an empty tree, and later inserts count distinct keys from 0 again
C5_MakeEmpty ==
    /\ [][\A o \in Objs : MakeEmpty(o) => Emptied(o)']_vars
    /\ [][\A o \in Objs :
            MakeEmpty(o) /\ isEmpty(World(o)) /\ getSize(World(o)) = 0
                => UNCHANGED <<heap, root, uniqueTokens>>]_vars
    /\ [][\A o \in Objs : \A k \in Keys :
            last.op = "makeEmpty" /\ Insert(o, k, Doc1, 1)
                => getSize(World(o))' = 1]_vars

\* makeEmpty has just emptied a tree of at least four nodes
C5_Witness ==
    /\ last.op = "makeEmpty" /\ last.obj = "test1" /\ last.arg >= 4
    /\ Emptied("test1")

(***************************************************************************)
(* Claims about postings (SpecPost) and copies (SpecCopy).                 *)
(***************************************************************************)
\* C2: the count stored for document d under key k is the sum of the counts
\* of the insert(k, d, c) calls made, and d has no entry under k when no
\* such call was made
C2_Accumulate ==
    \A o \in Objs : alive[o] =>
        \A k \in ProbeKeys : \A d \in Docs \cup {Doc3} :
            IF <<k, d>> \in DOMAIN inserted[o]
            THEN /\ d \in DOMAIN getWordMapAtKey(World(o), k)
                 /\ getWordMapAtKey(World(o), k)[d] = inserted[o][<<k, d>>]
            ELSE d \notin DOMAIN getWordMapAtKey(World(o), k)

\* a second insert for ("a", "d1") has just brought its count to three, in
\* a tree of three keys
C2_Witness ==
    /\ last.op = "insert" /\ last.arg = 1
    /\ Cardinality(KeysOf("test1")) = 3
    /\ <<Letter(1), Doc1>> \in DOMAIN inserted["test1"]
    /\ inserted["test1"][<<Letter(1), Doc1>>] = 3
    /\ getWordMapAtKey(World("test1"), Letter(1))[Doc1] = 3

\* what a caller can observe of object o
View(o) ==
    <<getSize(World(o)), Mapping(o),
      {k \in ProbeKeys : contains(World(o), k)}>>

\* C6: right after a copy construction or a copy assignment the target has
\* the contains results, the posting maps and the getSize() of the source
C6_CopyEqual ==
    last.op \in {"copy", "assign"} => View(last.obj) = View(last.from)

\* C7: an insert or makeEmpty on one of two trees related by a copy leaves
\* the getSize(), contains results and posting maps of the other unchanged,
\* and the two share no node
C7_Independent ==
    /\ [](\A o, p \in Objs : o # p /\ alive[o] /\ alive[p] =>
            Nodes(heap, root[o]) \cap Nodes(heap, root[p]) = {})
    /\ [][\A o, p \in Objs :
            o # p /\ alive[o] /\ alive[p] /\ (InsertCopy(o) \/ MakeEmpty(o))
                => View(p)' = View(p)]_vars

\* an insert into the copy of a two-key tree has just given the copy a key
\* the original does not have
C7_Witness ==
    /\ alive["test1"] /\ alive["test2"]
    /\ last.op = "insert" /\ last.obj = "test2" /\ last.arg = 0
    /\ Cardinality(KeysOf("test1")) = 2
    /\ KeysOf("test1") \subseteq KeysOf("test2")
    /\ KeysOf("test1") # KeysOf("test2")

(***************************************************************************)
(* Claims about persistence (SpecFile).                                    *)
(***************************************************************************)
\* C8: when the file a tree was written to has been read into an empty
\* tree, that tree maps the same keys to the same documents and counts as
\* the tree written, whatever characters the keys and document ids hold
\* (and the read has come back: no exception has ended the program).
C8_RoundTrip ==
    (last.op = "read" /\ last.arg = 0)
        => (~terminated /\ Mapping(last.obj) = saved)
(***************************************************************************)
(* Claims about queries (SpecQuery).                                       *)
(***************************************************************************)
\* the posting maps of the terms of the last query: what SeperateString
\* collects for its string alone
TermsOfSearch == SeperateString(Terms(<<>>, <<>>), search)

PositiveMaps == TermsOfSearch.vectorOfMaps

ExcludedMaps == TermsOfSearch.vectorOfBadMaps

\* the (document, score) pairs the last query gave
ResultPairs ==
    {documentFrequencyPairs[i] : i \in DOMAIN documentFrequencyPairs}

\* the sum of the counts of document d in the maps ms
RECURSIVE SumOfCounts(_, _)
SumOfCounts(ms, d) ==
    IF ms = <<>> THEN 0 ELSE Head(ms)[d] + SumOfCounts(Tail(ms), d)

\* the documents of every one of the maps ms, each with the sum of its counts
InAll(ms) ==
    IF ms = <<>> THEN {}
    ELSE {<<d, SumOfCounts(ms, d)>> :
             d \in {e \in DOMAIN ms[1] :
                       \A i \in DOMAIN ms : e \in DOMAIN ms[i]}}

NotExcluded(d) == \A i \in DOMAIN ExcludedMaps : d \notin DOMAIN ExcludedMaps[i]

\* C9: after a query with at least one positive term and no excluded term,
\* the result is exactly the documents that are in the posting map of every
\* positive term, each with the sum of its counts in those maps.
C9_Intersection ==
    (last.op = "query" /\ PositiveMaps # <<>> /\ ExcludedMaps = <<>>)
        => ResultPairs = InAll(PositiveMaps)

\* C10: after a query, no document of the result is in the posting map of
\* an excluded term of that query, and every document of the positive
\* intersection that is in none of those maps is in the result with the
\* score of the intersection.
C10_Exclusion ==
    last.op = "query" =>
        /\ \A p \in ResultPairs : NotExcluded(p[1])
        /\ \A p \in InAll(PositiveMaps) : NotExcluded(p[1]) => p \in ResultPairs
\* the words of the last query, punctuation removed
WordsOfSearch ==
    [i \in DOMAIN tokenizer(search) |->
        removePunctuationExcept(tokenizer(search)[i])]

\* the places of its excluded words: those that start with a dash
ExcludedWords ==
    {i \in DOMAIN WordsOfSearch :
        WordsOfSearch[i] # <<>> /\ Head(WordsOfSearch[i]) = Dash}

\* the places of its positive words: not empty, not excluded, and an entity
\* term or not a stop word
PositiveWords ==
    {i \in DOMAIN WordsOfSearch \ ExcludedWords :
        /\ WordsOfSearch[i] # <<>>
        /\ \/ Substr(WordsOfSearch[i], 0, 4) = OrgPrefix
           \/ Substr(WordsOfSearch[i], 0, 7) = PersonPrefix
           \/ toLower(WordsOfSearch[i]) \notin stopWords}

\* C11: after a query without a positive word (stop words, empty tokens and
\* excluded words only) the result is empty and nothing is printed; the
\* positive list holds one map for each positive word and none for an
\* excluded word, and the query has added to the exclusion list one map for
\* each of its excluded words.
C11_NoPositiveTerm ==
    last.op = "query" =>
        /\ PositiveWords = {} => (ResultPairs = {} /\ output.pairs = <<>>)
        /\ Len(vectorOfMaps) = Cardinality(PositiveWords)
        /\ Len(vectorOfBadMaps) = last.arg + Cardinality(ExcludedWords)

\* a query of one excluded word whose documents are in the index
C11_Witness ==
    /\ last.op = "query"
    /\ PositiveWords = {} /\ ExcludedWords # {}
    /\ \E i \in DOMAIN ExcludedMaps : ExcludedMaps[i] # EmptyMap
    /\ ResultPairs = {}

\* C12: the result of every query is the result its string gives on a
\* QueryProcessor that has run no query before.
C12_NoPersistence ==
    last.op = "query" =>
        ResultPairs = PairsOf(processQuery(Terms(<<>>, <<>>), search).result)
(***************************************************************************)
(* Claims about pages (SpecPage).                                          *)
(***************************************************************************)
\* the number of pairs a call for n documents prints at the cursor
PageLength(n) == Min(n, Len(documentFrequencyPairs) - searchIndex)

\* C13: the pairs printed since the query began are the ranked pairs up to
\* the cursor, in rank order, each once and none left out, and the ranked
\* pairs are in descending order of score; every outputDocuments(n) prints
\* the min(n, N - cursor) pairs at the cursor and moves the cursor on by
\* that number.
C13_Pagination ==
    /\ [](/\ searchIndex <= Len(documentFrequencyPairs)
          /\ emitted = SubSeq(documentFrequencyPairs, 1, searchIndex)
          /\ \A i, j \in DOMAIN documentFrequencyPairs :
                 i < j => documentFrequencyPairs[i][2]
                              >= documentFrequencyPairs[j][2])
    /\ [][\A n \in PageSizes : OutputDocuments(n) =>
            /\ output'.pairs = SubSeq(documentFrequencyPairs, searchIndex + 1,
                                      searchIndex + PageLength(n))
            /\ searchIndex' = searchIndex + PageLength(n)]_vars

\* twenty results: the first page of 15, then a page of 5 has printed the rest
C13_Witness ==
    /\ last.op = "output" /\ last.arg = DefaultPage
    /\ Len(documentFrequencyPairs) = DefaultPage + MorePage
    /\ Len(output.pairs) = MorePage
    /\ searchIndex = Len(documentFrequencyPairs)
    /\ emitted = documentFrequencyPairs
\* the documents of the ranked pairs
ResultDocs == {p[1] : p \in ResultPairs}

\* C14: when a query has run, the cursor is at min(15, N) of its N results,
\* what it printed and all that is printed since it began are ranks 1 to
\* min(15, N), and every ranked pair is a document of the new query's terms
\* with the score of their intersection; an outputDocuments(5) that follows
\* prints ranks 16 to min(20, N) of the same pairs.
C14_FreshQuery ==
    /\ [](last.op = "query" =>
            /\ searchIndex = Min(DefaultPage, Len(documentFrequencyPairs))
            /\ output.pairs = SubSeq(documentFrequencyPairs, 1, searchIndex)
            /\ emitted = output.pairs
            /\ ResultPairs \subseteq InAll(PositiveMaps))
    /\ [][(last.op = "query" /\ OutputDocuments(MorePage)) =>
            /\ documentFrequencyPairs' = documentFrequencyPairs
            /\ output'.pairs =
                   SubSeq(documentFrequencyPairs, DefaultPage + 1,
                          Min(DefaultPage + MorePage,
                              Len(documentFrequencyPairs)))]_vars

\* a query has run whose results do not hold the document whose name was
\* looked up in the results of the query before
C14_Witness ==
    /\ last.op = "query"
    /\ documentFrequencyPairs # <<>>
    /\ docName # <<>> /\ docName \notin ResultDocs

\* C15: the cursor is never past the end of the ranked pairs; a call of
\* outputDocuments with the cursor at the end prints no pair, reports that
\* no documents match and leaves the cursor and the ranked pairs as they are.
C15_AtEnd ==
    /\ [](searchIndex \in 0..Len(documentFrequencyPairs))
    /\ [][\A n \in PageSizes :
            (searchIndex >= Len(documentFrequencyPairs) /\ OutputDocuments(n))
                => /\ output' = [pairs |-> <<>>, none |-> TRUE]
                   /\ searchIndex' = searchIndex
                   /\ documentFrequencyPairs' = documentFrequencyPairs]_vars

\* all pairs of a result are printed and one more page has been asked for
C15_Witness ==
    /\ last.op = "output" /\ last.arg = Len(documentFrequencyPairs)
    /\ documentFrequencyPairs # <<>>
    /\ output = [pairs |-> <<>>, none |-> TRUE]

\* C16: the name given for document number k is the document of rank k
\* when there is such a rank and the empty string when there is none (k = 0
\* and below wrap around to an index past every rank); the call leaves the
\* ranked pairs and the cursor as they are and does not end the program.
C16_DocumentName ==
    /\ [](last.op = "name" =>
            /\ ~terminated
            /\ docName = IF last.arg \in 1..Len(documentFrequencyPairs)
                          THEN documentFrequencyPairs[last.arg][1]
                          ELSE <<>>)
    /\ [][\A k \in DocNumbers : GetDocumentName(k) =>
            UNCHANGED <<documentFrequencyPairs, searchIndex>>]_vars

\* document number 0 was typed while there are ranked pairs
C16_Witness ==
    /\ last.op = "name" /\ last.arg = 0
    /\ documentFrequencyPairs # <<>>
    /\ docName = <<>>
\* C17: readFromTextFile returns normally for every file, and a well-formed
\* line that follows a malformed one is processed.
C17_NoFatalLoad ==
    last.op = "read" =>
        /\ ~terminated
        /\ \A l \in BadLines :
               file = l \o <<Newline>> \o GoodLine \o <<Newline>>
                   => Doc1 \in DOMAIN getWordMapAtKey(World("test2"), Letter(2))

\* C18: every stored count is at least 1 and no node has an empty map.
C18_PositiveCounts ==
    \A o \in TestObjs : \A a \in Nodes(heap, root[o]) :
        /\ heap[a].wordMap # EmptyMap
        /\ \A d \in DOMAIN heap[a].wordMap : heap[a].wordMap[d] >= 1
\* the keys looked up: "bank", "loan", "bob", "Acme", "xyz", ""
LookupKeys == {Bank, Loan, Bob, Acme, Unknown, <<>>}

\* the postings key k of tree o has been inserted with
PostingsOf(o, k) ==
    [d \in {p[2] : p \in {q \in DOMAIN inserted[o] : q[1] = k}} |->
        inserted[o][<<k, d>>]]

\* C19: in every state, and so after every query and every page, the lookup
\* of a key in each of the three indexes gives the postings the key was
\* inserted with, the empty map for a key that was never inserted, getSize
\* is the number of keys inserted, and the program has not ended; the maps
\* the query works on are erased from while the index is not.
C19_ReadOnlyLookup ==
    /\ ~terminated
    /\ \A o \in Trees :
           /\ getSize(World(o)) = Cardinality(InsertedKeys(o))
           /\ KeysOf(o) = InsertedKeys(o)
           /\ \A k \in LookupKeys :
                  getWordMapAtKey(World(o), k) = PostingsOf(o, k)

\* "bank loan" has run on the full index: the intersection has erased d1
\* from the working map of "loan", and the index still has it
C19_Witness ==
    /\ last.op = "query" /\ search = Bank \o <<Space>> \o Loan
    /\ Cardinality(DOMAIN inserted["WordsTree"]) = 4
    /\ Len(vectorOfMaps) = 2 /\ DOMAIN vectorOfMaps[2] = {Doc3}
    /\ DOMAIN getWordMapAtKey(World("WordsTree"), Loan) = {Doc1, Doc3}

\* the positive maps of the last query that are not empty
KnownMaps == SelectSeq(PositiveMaps, LAMBDA m : m # EmptyMap)

UnknownTerm == \E i \in DOMAIN PositiveMaps : PositiveMaps[i] = EmptyMap

\* a document that is in a map of the exclusion vector
Excluded(d) ==
    \E i \in DOMAIN vectorOfBadMaps : d \in DOMAIN vectorOfBadMaps[i]

\* C20 (as stated): after a query with an unknown positive term the program
\* has not ended and the result is that of the query without the unknown
\* terms: the documents of every known positive term that are not excluded,
\* and nothing when no positive term is known.
C20_ContributesNothing ==
    (last.op = "query" /\ UnknownTerm) =>
        /\ ~terminated
        /\ ResultPairs = {p \in InAll(KnownMaps) : ~Excluded(p[1])}

\* C20 (amended): after a query with an unknown positive term the program
\* has not ended, the unknown term has brought an empty map into the
\* positive list, and the result is empty whether or not the query has
\* other positive terms.
C20_UnknownTerm ==
    (last.op = "query" /\ UnknownTerm) =>
        /\ ~terminated
        /\ Len(vectorOfMaps) = Len(PositiveMaps)
        /\ ResultPairs = {}
        /\ output = [pairs |-> <<>>, none |-> TRUE]

\* "bank xyz" has run with "bank" in the index
C20_Witness ==
    /\ last.op = "query" /\ search = Bank \o <<Space>> \o Unknown
    /\ Len(PositiveMaps) = 2
    /\ PositiveMaps[1] # EmptyMap /\ PositiveMaps[2] = EmptyMap
    /\ ResultPairs = {}
\* C21: after the query "The Banks" the result is that of the word "bank"
\* alone, whether or not the stop words have been loaded: the documents of
\* "bank" in the word index that no map of the exclusion vector holds.
C21_StopWordNeverPositive ==
    (last.op = "query"
        /\ search = <<84, 104, 101, Space, 66, 97, 110, 107, 115>>) =>
        ResultPairs =
            {p \in PairsOf(getWordMapAtKey(World("WordsTree"), Bank)) :
                ~Excluded(p[1])}

\* C22: the ranked pairs hold every document at most once and the score
\* never grows from one rank to the next; when a query has run they are the
\* pairs of its result mapping (the documents of every positive term, with
\* the sum of their counts).
C22_RankedPermutation ==
    /\ \A i, j \in DOMAIN documentFrequencyPairs :
           i # j => documentFrequencyPairs[i][1] # documentFrequencyPairs[j][1]
    /\ last.op = "query" => ResultPairs = InAll(PositiveMaps)
    /\ \A i, j \in DOMAIN documentFrequencyPairs :
           i < j => documentFrequencyPairs[i][2]
                        >= documentFrequencyPairs[j][2]

\* a query has ranked d6 before d5, which have the same score
C22_Witness ==
    /\ last.op = "query"
    /\ \E i, j \in DOMAIN documentFrequencyPairs :
           /\ i < j
           /\ documentFrequencyPairs[i] = <<DocId(6), 5>>
           /\ documentFrequencyPairs[j] = <<DocId(5), 5>>
\* the groups "(doc,count)" of the map m, by ascending document
RECURSIVE GroupsInOrder(_)
GroupsInOrder(m) ==
    IF DOMAIN m = {} THEN <<>>
    ELSE LET d == FirstOf(DOMAIN m)
         IN  Group(d, ToChars(m[d]))
                 \o GroupsInOrder([e \in DOMAIN m \ {d} |-> m[e]])

\* the lines of the keys S of tree o, by ascending key
RECURSIVE LinesInOrder(_, _)
LinesInOrder(o, S) ==
    IF S = {} THEN <<>>
    ELSE LET k == FirstOf(S)
         IN  Line(k, GroupsInOrder(PostingsOf(o, k))) \o <<Newline>>
                 \o LinesInOrder(o, S \ {k})

\* C23: the file writeToTextFile has written holds one line for every key
\* that was inserted, the lines by ascending key, and each line is the key,
\* a colon and a group "(doc,count)" for every document the key was
\* inserted with, by ascending document, the count being the sum of the
\* counts inserted.
C23_SortedLines ==
    last.op = "write" => file = LinesInOrder(last.obj, InsertedKeys(last.obj))

\* a tree of three keys whose root has two children has been written
C23_Witness ==
    /\ last.op = "write" /\ last.arg = 3
    /\ heap[root["test1"]].left # Null /\ heap[root["test1"]].right # Null
    /\ Len(file) > 0
\* the file of line l and then the line "b:(d1,1)"
Before(l) == l \o <<Newline>> \o GoodLine \o <<Newline>>

\* C24: when an empty tree has read a file whose second line is "b:(d1,1)",
\* the call has returned and the tree holds b with (d1,1); of the first line
\* it holds nothing when the line has no colon or its first group is
\* malformed, and a with (d1,2) alone when the line is "a:(d1,2)" followed
\* by a malformed group.
C24_SkipMalformed ==
    (last.op = "read" /\ last.arg = 0) =>
        /\ \A l \in MixedLines :
               file = Before(l) =>
                   /\ ~terminated
                   /\ Mapping("test2") = (Letter(1) :> (Doc1 :> 2))
                                            @@ (Letter(2) :> (Doc1 :> 1))
        /\ \A l \in {Letter(1) \o Letter(2), OpenLine} :
               file = Before(l) =>
                   /\ ~terminated
                   /\ Mapping("test2") = (Letter(2) :> (Doc1 :> 1))
\* "a:(d1,2)(d2,1)"
TwoGroups ==
    Line(Letter(1), Group(Doc1, ToChars(2)) \o Group(Doc2, ToChars(1)))

\* the postings of a well-formed line: key, document, count
LinePostings(l) ==
    IF l = GoodLine THEN {<<Letter(2), Doc1, 1>>}
    ELSE {<<Letter(1), Doc1, 2>>, <<Letter(1), Doc2, 1>>}

\* the well-formed files, as sequences of lines
WholeFiles ==
    {<<GoodLine>>, <<TwoGroups>>, <<GoodLine, GoodLine>>,
     <<TwoGroups, GoodLine>>}

RECURSIVE Chars(_)
Chars(ls) ==
    IF ls = <<>> THEN <<>> ELSE Head(ls) \o <<Newline>> \o Chars(Tail(ls))

\* the count of document d under key k in the lines ls
RECURSIVE CountInLines(_, _, _)
CountInLines(ls, k, d) ==
    IF ls = <<>> THEN 0
    ELSE CountInLines(Tail(ls), k, d)
             + (IF \E p \in LinePostings(Head(ls)) : p[1] = k /\ p[2] = d
                THEN (CHOOSE p \in LinePostings(Head(ls)) :
                          p[1] = k /\ p[2] = d)[3]
                ELSE 0)

KeysInLines(ls) ==
    {p[1] : p \in UNION {LinePostings(ls[i]) : i \in DOMAIN ls}}

\* the count of document d under key k in test2, 0 when there is none
CountOf(k, d) ==
    IF d \in DOMAIN getWordMapAtKey(World("test2"), k)
    THEN getWordMapAtKey(World("test2"), k)[d] ELSE 0

\* C25: a load of a well-formed file into test2, empty or not, returns,
\* leaves the count of every document under every key at its count before
\* plus its count in the file, and raises getSize by the number of keys of
\* the file the tree did not hold.
C25_MergeOnLoad ==
    [][\A ls \in WholeFiles :
          (file = Chars(ls) /\ last.op # "read" /\ last'.op = "read") =>
              /\ ~terminated'
              /\ \A k \in {Letter(1), Letter(2)} : \A d \in Docs :
                     CountOf(k, d)' = CountOf(k, d) + CountInLines(ls, k, d)
              /\ getSize(World("test2"))' =
                     getSize(World("test2"))
                         + Cardinality(KeysInLines(ls) \ KeysOf("test2"))]_vars

\* the file "b:(d1,1)" has been read into a tree that held just what the
\* file holds: the count is doubled and the size is still 1
C25_Witness ==
    /\ last.op = "read" /\ last.arg = 1
    /\ file = Chars(<<GoodLine>>)
    /\ Mapping("test2") = (Letter(2) :> (Doc1 :> 2))
    /\ getSize(World("test2")) = 1
(***************************************************************************)
(* More claims about the tree of Spec.                                     *)
(***************************************************************************)
\* node b of the heap is what it was, but for its posting map
SameButMap(b) == [heap'[b] EXCEPT !.wordMap = heap[b].wordMap] = heap[b]

\* C26: an insert of a key the tree holds leaves the root, getSize and every
\* node as they were (key, children and height), except for the posting
\* map of the one node that has the key.
C26_PostingUpdateFrame ==
    [][(last'.op = "insert" /\ last'.arg = 1) =>
          /\ root' = root
          /\ uniqueTokens' = uniqueTokens
          /\ \E a \in Nodes(heap, root[last'.obj]) :
                 /\ SameButMap(a)
                 /\ heap'[a].wordMap # heap[a].wordMap
                 /\ \A b \in Addrs \ {a} : heap'[b] = heap[b]]_vars

\* the count of a key two levels below the root of a tree of five keys has
\* just been raised to two
C26_Witness ==
    /\ last.op = "insert" /\ last.arg = 1
    /\ Cardinality(Nodes(heap, root["test1"])) = 5
    /\ \E a \in Nodes(heap, root["test1"]) :
           /\ Depth(heap, heap[a].key, root["test1"]) = 2
           /\ heap[a].wordMap[Doc1] = 2
           /\ \A b \in Nodes(heap, root["test1"]) \ {a} :
                  heap[b].wordMap[Doc1] = 1

\* C27: the height stored in every node of every tree is one more than the
\* greater of the heights of its subtrees as they are, the empty subtree
\* having height -1.
C27_StoredHeights ==
    \A o \in Objs : \A a \in Nodes(heap, root[o]) :
        /\ heap[a].height = TrueHeight(heap, a)
        /\ heap[a].height =
               1 + Max(height(heap, heap[a].left), height(heap, heap[a].right))

\* a fourth key has just made the tree one level higher without a rotation
C27_Witness ==
    /\ last.op = "insert" /\ last.arg = 0
    /\ Cardinality(Nodes(heap, root["test1"])) = 4
    /\ heap[root["test1"]].height = 2
(***************************************************************************)
(* The order of the terms of a query (SpecQuery).                          *)
(***************************************************************************)
\* the words ws with a space between them
RECURSIVE JoinWords(_)
JoinWords(ws) ==
    IF Len(ws) = 1 THEN ws[1] ELSE ws[1] \o <<Space>> \o JoinWords(Tail(ws))

\* the strings that have the words of s in any order
Reorders(s) ==
    LET ws == tokenizer(s)
    IN  {JoinWords([i \in DOMAIN ws |-> ws[f[i]]]) :
            f \in {g \in [DOMAIN ws -> DOMAIN ws] :
                      \A i, j \in DOMAIN ws : g[i] = g[j] => i = j}}

\* C28: when a query has run, every string with the same terms in another
\* order, run on the query processor as it was before the query, gives the
\* same documents with the same scores.
C28_OrderOfTerms ==
    last.op = "query" =>
        \A t \in Reorders(search) :
            ResultPairs =
                PairsOf(processQuery(
                            Terms(<<>>, SubSeq(vectorOfBadMaps, 1, last.arg)),
                            t).result)

\* "-loan bank" has run on the full index and has given d2 alone; "bank
\* -loan" is its other order
C28_Witness ==
    /\ last.op = "query"
    /\ search = <<Dash>> \o Loan \o <<Space>> \o Bank
    /\ Bank \o <<Space, Dash>> \o Loan \in Reorders(search)
    /\ Cardinality(DOMAIN inserted["WordsTree"]) = 4
    /\ ResultPairs = {<<Doc2, 1>>}

====
